---------------------------- MODULE Spec2Model ----------------------------
(***************************************************************************)
(* Model of netlify/functions/fetchImages.js: one invocation of the        *)
(* handler, which fetches open orders (by date or by order-number range),  *)
(* resolves every line item to a product image URL through a per-call      *)
(* cache, and streams the downloaded images into a zip archive that is     *)
(* uploaded to the blob store while it is produced.                        *)
(*                                                                         *)
(* Every action is one step of the JavaScript between two awaits (or one   *)
(* iteration of a synchronous loop body).  The upstream API, the image     *)
(* hosts and the blob store are the environment: their answers are chosen  *)
(* with \E when the request completes.                                     *)
(***************************************************************************)
EXTENDS Integers, Sequences, FiniteSets, TLC

VARIABLES
    event,              \* the invocation: [httpMethod, body]
    configOk,           \* SHOPIFY_STORE_NAME and ADMIN_API_ACCESS_TOKEN are set
    upstream,           \* the listing of open orders the order API serves, in its default order
    pc,                 \* position of the invocation ("crashed": the process has ended)
    response,           \* <<>> until the handler returns, then <<the response>>
    orders,             \* handler: orders
    startNum, endNum,   \* getOrdersByNumberRange: parameters
    allOrders,          \* getOrdersByNumberRange: accumulator
    nextUrl,            \* getOrdersByNumberRange: page to request next, NoPage for null
    fetched,            \* history: the order-page responses received, in order
    imageUrls,          \* handler: imageUrls
    finalImageUrlList,  \* getAllImageUrlsByQuantity: output list
    productImageCache,  \* getAllImageUrlsByQuantity: Map product_id -> url or Null
    oi, ii,             \* getAllImageUrlsByQuantity: current order / line item (1-based)
    resolved,           \* history: one record per line item the resolver has visited
    i,                  \* streamZipToBlobStorage: loop index (0-based, as in the code)
    archive,            \* streamZipToBlobStorage: entries appended to the archive
    finalized,          \* archive.finalize() has completed
    upload,             \* state of uploadPromise: "none", "pending", "done", "failed"
    downloads,          \* history: outcome (ok or not) of every image download
    log                 \* history: every network request issued, in order

vars == <<event, configOk, upstream, pc, response, orders, startNum, endNum,
          allOrders, nextUrl, fetched, imageUrls, finalImageUrlList,
          productImageCache, oi, ii, resolved, i, archive, finalized, upload,
          downloads, log>>

fetchVars   == <<orders, startNum, endNum, allOrders, nextUrl, fetched>>
resolveVars == <<imageUrls, finalImageUrlList, productImageCache, oi, ii, resolved>>
streamVars  == <<i, archive, finalized, upload, downloads>>
inputVars   == <<event, configOk, upstream>>

-----------------------------------------------------------------------------
(* Bounds of the model *)

MaxOrderNum  == 4   \* order numbers are 1..MaxOrderNum
PageLimit    == 2   \* orders per upstream page (limit=250 in the code, scaled down)
MaxLineItems == 2   \* line items of the orders handed to the resolver, in total
MaxQuantity  == 2   \* largest quantity of a line item
MaxUrls      == 4   \* length of the URL list handed to the streamer
MaxInvocationOrders == 3   \* open orders upstream when a whole invocation is run

-----------------------------------------------------------------------------
(* Values *)

Null   == "null"            \* JavaScript null
NoPage == 0                 \* nextUrl = null

ProductIds == {"P1", "P2"}
NoProductId == ""           \* a line item without product_id (falsy)
Urls == {"u1", "u2"}

OrderNums == 1..MaxOrderNum

\* JavaScript truthiness of a string-or-null value (lines 99, 109, 118)
Truthy(v) == v # "" /\ v # Null

Min(a, b) == IF a < b THEN a ELSE b

RECURSIVE SeqSum(_)
SeqSum(s) == IF s = <<>> THEN 0 ELSE Head(s) + SeqSum(Tail(s))

\* all sequences over S of length 0..n
SeqsUpTo(S, n) == UNION {[1..k -> S] : k \in 0..n}

\* sequences of distinct elements of S
DistinctSeqs(S) ==
    {s \in SeqsUpTo(S, Cardinality(S)) : \A a, b \in 1..Len(s) : a # b => s[a] # s[b]}


-----------------------------------------------------------------------------
(* The upstream order API *)

\* Page p (1-based) of a listing served PageLimit orders at a time; a page past
\* the end of the listing is empty.
PageOf(listing, p) ==
    IF (p - 1) * PageLimit >= Len(listing) THEN <<>>
    ELSE SubSeq(listing, (p - 1) * PageLimit + 1, Min(p * PageLimit, Len(listing)))

NumPages(listing) == (Len(listing) + PageLimit - 1) \div PageLimit

\* The values the 'link' response header of page p can take: absent, or a
\* comma-separated list of links each tagged with a rel.
LinkHeaders(p) ==
    LET prev == [rel |-> "previous", url |-> p - 1]
        next == [rel |-> "next", url |-> p + 1]
    IN  { [present |-> FALSE, links |-> <<>>],
          [present |-> TRUE,  links |-> <<prev>>],
          [present |-> TRUE,  links |-> <<next>>],
          [present |-> TRUE,  links |-> <<prev, next>>] }

\* The JSON bodies a successful order-page response can carry for page p:
\* {orders: [...]}, or, for an empty page, also a body without the orders field.
OrderBodies(listing, p) ==
    { [hasOrders |-> TRUE, orders |-> PageOf(listing, p)] }
    \cup (IF PageOf(listing, p) = <<>>
          THEN { [hasOrders |-> FALSE, orders |-> <<>>] } ELSE {})

-----------------------------------------------------------------------------
(* getOrdersByDate / getOrdersByNumberRange: pure parts *)

\* data.orders || []   (lines 145, 163)
OrdersOrEmpty(data) == IF data.hasOrders THEN data.orders ELSE <<>>

\* lines 174-183: the URL of the first link that includes rel="next", else null
NextLink(linkHeader) ==
    IF ~linkHeader.present THEN NoPage
    ELSE LET nexts == SelectSeq(linkHeader.links, LAMBDA l : l.rel = "next")
         IN  IF nexts = <<>> THEN NoPage ELSE Head(nexts).url

\* mutants of OldestBelowStart: the exit taken on a last order equal to start;
\* the exit never taken
OldestAtOrBelowStart(ordersPage, s) ==
    ordersPage[Len(ordersPage)].order_number <= s

OldestNeverBelowStart(ordersPage, s) == FALSE

\* lines 169-172: the early exit test on the last order of the page
OldestBelowStart(ordersPage, s) ==
    ordersPage[Len(ordersPage)].order_number < s

\* mutants of InRange: the upper bound forgotten; the lower bound exclusive
InRangeNoUpper(order, s, e) == order.order_number >= s

InRangeExclusive(order, s, e) == order.order_number > s /\ order.order_number <= e

\* lines 186-189: the final filter
InRange(order, s, e) == order.order_number >= s /\ order.order_number <= e

FilterRange(all, s, e) == SelectSeq(all, LAMBDA o : InRange(o, s, e))

\* The handler's catch (lines 53-56)
InternalError(msg) ==
    [statusCode |-> 500, message |-> "An internal error occurred: " \o msg]

-----------------------------------------------------------------------------
(* handler, lines 8-29: everything up to the first await *)

Respond(r) ==
    /\ response' = <<r>>
    /\ pc' = "done"

\* lines 9-11
MethodNotAllowed ==
    /\ pc = "handler"
    /\ event.httpMethod # "POST"
    /\ Respond([statusCode |-> 405, message |-> "Method Not Allowed"])
    /\ UNCHANGED <<inputVars, fetchVars, resolveVars, streamVars, log>>

\* lines 13-16
ConfigError ==
    /\ pc = "handler"
    /\ event.httpMethod = "POST"
    /\ ~configOk
    /\ Respond([statusCode |-> 500, message |-> "Server configuration error."])
    /\ UNCHANGED <<inputVars, fetchVars, resolveVars, streamVars, log>>

Accepted == pc = "handler" /\ event.httpMethod = "POST" /\ configOk

\* line 19: JSON.parse throws, caught at line 53
BodyParseError ==
    /\ Accepted
    /\ ~event.body.json
    /\ Respond(InternalError("Unexpected token"))
    /\ UNCHANGED <<inputVars, fetchVars, resolveVars, streamVars, log>>

\* lines 27-29
InvalidType ==
    /\ Accepted
    /\ event.body.json
    /\ event.body.type \notin {"date", "order_range"}
    /\ Respond([statusCode |-> 400, message |-> "Invalid request type."])
    /\ UNCHANGED <<inputVars, fetchVars, resolveVars, streamVars, log>>

\* lines 23-24, 129-142: an invalid date makes toISOString throw (line 136)
\* before any request; otherwise the single order request is issued.
CallGetOrdersByDate ==
    /\ Accepted
    /\ event.body.json
    /\ event.body.type = "date"
    /\ IF event.body.dateValid
       THEN /\ pc' = "getOrdersByDate"
            /\ log' = Append(log, [kind |-> "orders", page |-> 1])
            /\ UNCHANGED response
       ELSE /\ Respond(InternalError("Invalid time value"))
            /\ UNCHANGED log
    /\ UNCHANGED <<inputVars, fetchVars, resolveVars, streamVars>>

\* lines 25-26, 149-153: the first page request of range mode
CallGetOrdersByNumberRange ==
    /\ Accepted
    /\ event.body.json
    /\ event.body.type = "order_range"
    /\ pc' = "getOrdersByNumberRange"
    /\ startNum' = event.body.start
    /\ endNum' = event.body.end
    /\ allOrders' = <<>>
    /\ nextUrl' = 1
    /\ log' = Append(log, [kind |-> "orders", page |-> 1])
    /\ UNCHANGED <<inputVars, response, orders, fetched, resolveVars, streamVars>>

-----------------------------------------------------------------------------
(* getOrdersByDate, lines 142-145 *)

\* line 143: a non-success response throws; the handler's catch answers
DateFetchFail ==
    /\ pc = "getOrdersByDate"
    /\ fetched' = Append(fetched, [page |-> 1, ok |-> FALSE, hasNext |-> FALSE, n |-> 0])
    /\ Respond(InternalError("Shopify API error"))
    /\ UNCHANGED <<inputVars, orders, startNum, endNum, allOrders, nextUrl,
                   resolveVars, streamVars, log>>

\* mutant of DateFetchOk: a next link is followed, the orders of the second
\* page are requested and returned too
DateFetchOkFollowsNext ==
    /\ pc = "getOrdersByDate"
    /\ \E data \in OrderBodies(upstream, 1) :
          /\ orders' = OrdersOrEmpty(data) \o PageOf(upstream, 2)
          /\ fetched' = fetched \o << [page |-> 1, ok |-> TRUE, hasNext |-> TRUE,
                                       n |-> Len(data.orders)],
                                      [page |-> 2, ok |-> TRUE, hasNext |-> FALSE,
                                       n |-> Len(PageOf(upstream, 2))] >>
    /\ log' = Append(log, [kind |-> "orders", page |-> 2])
    /\ pc' = "haveOrders"
    /\ UNCHANGED <<inputVars, response, startNum, endNum, allOrders, nextUrl,
                   resolveVars, streamVars>>

\* lines 144-145: the orders of the single page are returned; the link header
\* is never read
DateFetchOk ==
    /\ pc = "getOrdersByDate"
    /\ \E data \in OrderBodies(upstream, 1), linkHeader \in LinkHeaders(1) :
          /\ orders' = OrdersOrEmpty(data)
          /\ fetched' = Append(fetched, [page |-> 1, ok |-> TRUE,
                                         hasNext |-> NextLink(linkHeader) # NoPage,
                                         n |-> Len(data.orders)])
    /\ pc' = "haveOrders"
    /\ UNCHANGED <<inputVars, response, startNum, endNum, allOrders, nextUrl,
                   resolveVars, streamVars, log>>

-----------------------------------------------------------------------------
(* getOrdersByNumberRange, lines 152-189: one iteration of the while loop *)

\* mutant of RangeFetchFail: the failure ends the loop instead of throwing, and
\* the pages accumulated so far are filtered and returned
RangeFetchFailPartial ==
    /\ pc = "getOrdersByNumberRange"
    /\ fetched' = Append(fetched, [page |-> nextUrl, ok |-> FALSE, hasNext |-> FALSE, n |-> 0])
    /\ orders' = FilterRange(allOrders, startNum, endNum)
    /\ pc' = "haveOrders"
    /\ UNCHANGED <<inputVars, response, startNum, endNum, allOrders, nextUrl,
                   resolveVars, streamVars, log>>

\* lines 157-160
RangeFetchFail ==
    /\ pc = "getOrdersByNumberRange"
    /\ fetched' = Append(fetched, [page |-> nextUrl, ok |-> FALSE, hasNext |-> FALSE, n |-> 0])
    /\ Respond(InternalError("Shopify API error. Details"))
    /\ UNCHANGED <<inputVars, orders, startNum, endNum, allOrders, nextUrl,
                   resolveVars, streamVars, log>>

\* lines 162-184 for a successful response, and lines 186-189 when the loop ends
RangeFetchPage ==
    /\ pc = "getOrdersByNumberRange"
    /\ \E data \in OrderBodies(upstream, nextUrl), linkHeader \in LinkHeaders(nextUrl) :
          LET ordersPage == OrdersOrEmpty(data)
              empty      == Len(ordersPage) = 0
              all        == IF empty THEN allOrders ELSE allOrders \o ordersPage
              stop       == empty \/ OldestBelowStart(ordersPage, startNum)
              next       == IF stop THEN nextUrl ELSE NextLink(linkHeader)
          IN  /\ fetched' = Append(fetched, [page |-> nextUrl, ok |-> TRUE,
                                             hasNext |-> NextLink(linkHeader) # NoPage,
                                             n |-> Len(ordersPage)])
              /\ allOrders' = all
              /\ nextUrl' = next
              /\ IF stop \/ next = NoPage
                 THEN /\ orders' = FilterRange(all, startNum, endNum)
                      /\ pc' = "haveOrders"
                      /\ UNCHANGED log
                 ELSE /\ log' = Append(log, [kind |-> "orders", page |-> next])
                      /\ UNCHANGED <<orders, pc>>
    /\ UNCHANGED <<inputVars, response, startNum, endNum, resolveVars, streamVars>>

-----------------------------------------------------------------------------
(* getAllImageUrlsByQuantity, lines 94-126 *)

\* The bodies a successful product lookup can carry: no product, a product
\* without image, an image without src, an image with a src URL.
ProductBodies ==
    { [hasProduct |-> FALSE, hasImage |-> FALSE, src |-> ""],
      [hasProduct |-> TRUE,  hasImage |-> FALSE, src |-> ""],
      [hasProduct |-> TRUE,  hasImage |-> TRUE,  src |-> ""] }
    \cup { [hasProduct |-> TRUE, hasImage |-> TRUE, src |-> u] : u \in Urls }

\* line 109: product && product.image && product.image.src
HasImageSrc(product) == product.hasProduct /\ product.hasImage /\ Truthy(product.src)

\* mutant of CacheSet: the result of a lookup is not stored
CacheSetNothing(cache, id, v) == cache

\* mutant of CacheSet: the map is replaced by one holding the new entry only
CacheSetOnly(cache, id, v) == [p \in {id} |-> v]

\* productImageCache.set(id, v)   (lines 111, 113)
CacheSet(cache, id, v) ==
    [p \in DOMAIN cache \cup {id} |-> IF p = id THEN v ELSE cache[p]]

\* mutant of Expand: the URL is pushed once, whatever the quantity
ExpandOnce(list, imageUrl, quantity) ==
    IF Truthy(imageUrl) THEN Append(list, imageUrl) ELSE list

\* lines 118-122: quantity copies of a truthy imageUrl are pushed
Expand(list, imageUrl, quantity) ==
    IF Truthy(imageUrl) THEN list \o [k \in 1..quantity |-> imageUrl] ELSE list

\* the first order at or after o that has a line item (the for loops of
\* lines 97-98 pass over an order without line items)
RECURSIVE SkipEmpty(_, _)
SkipEmpty(os, o) ==
    IF o > Len(os) THEN o
    ELSE IF Len(os[o].line_items) = 0 THEN SkipEmpty(os, o + 1) ELSE o

CurrentItem == orders[oi].line_items[ii]

\* The end of one iteration of the inner loop: imageUrl is the value tested at
\* line 118, cache the cache after the iteration, rec the history record.  The
\* loops advance, and the function returns (line 125) after the last item.
FinishItem(imageUrl, cache, rec) ==
    LET list == Expand(finalImageUrlList, imageUrl, CurrentItem.quantity)
        last == ii >= Len(orders[oi].line_items)
        o    == IF last THEN SkipEmpty(orders, oi + 1) ELSE oi
    IN  /\ finalImageUrlList' = list
        /\ productImageCache' = cache
        /\ resolved' = Append(resolved, rec)
        /\ oi' = o
        /\ ii' = IF last THEN 1 ELSE ii + 1
        /\ IF o > Len(orders)
           THEN /\ imageUrls' = list
                /\ pc' = "haveImageUrls"
           ELSE UNCHANGED <<imageUrls, pc>>

ItemRecord(source, outcome, imageUrl) ==
    [product_id |-> CurrentItem.product_id, quantity |-> CurrentItem.quantity,
     source |-> source, outcome |-> outcome, imageUrl |-> imageUrl]

Resolving == pc = "getAllImageUrlsByQuantity" /\ oi <= Len(orders)

\* handler lines 31-33
NoOrders ==
    /\ pc = "haveOrders"
    /\ Len(orders) = 0
    /\ Respond([statusCode |-> 200,
                message |-> "No unfulfilled orders found for the selected criteria."])
    /\ UNCHANGED <<inputVars, fetchVars, resolveVars, streamVars, log>>

\* handler line 35 and lines 95-98
CallGetAllImageUrlsByQuantity ==
    /\ pc = "haveOrders"
    /\ Len(orders) # 0
    /\ finalImageUrlList' = <<>>
    /\ productImageCache' = <<>>
    /\ oi' = SkipEmpty(orders, 1)
    /\ ii' = 1
    /\ IF SkipEmpty(orders, 1) > Len(orders)
       THEN /\ imageUrls' = <<>>
            /\ pc' = "haveImageUrls"
       ELSE /\ pc' = "getAllImageUrlsByQuantity"
            /\ UNCHANGED imageUrls
    /\ UNCHANGED <<inputVars, response, fetchVars, resolved, streamVars, log>>

\* line 99
SkipItem ==
    /\ Resolving
    /\ ~Truthy(CurrentItem.product_id)
    /\ resolved' = Append(resolved, ItemRecord("skip", "", ""))
    /\ LET last == ii >= Len(orders[oi].line_items)
           o    == IF last THEN SkipEmpty(orders, oi + 1) ELSE oi
       IN  /\ oi' = o
           /\ ii' = IF last THEN 1 ELSE ii + 1
           /\ IF o > Len(orders)
              THEN /\ imageUrls' = finalImageUrlList
                   /\ pc' = "haveImageUrls"
              ELSE UNCHANGED <<imageUrls, pc>>
    /\ UNCHANGED <<inputVars, response, fetchVars, finalImageUrlList,
                   productImageCache, streamVars, log>>

\* lines 101-102
UseCache ==
    /\ Resolving
    /\ Truthy(CurrentItem.product_id)
    /\ CurrentItem.product_id \in DOMAIN productImageCache
    /\ LET imageUrl == productImageCache[CurrentItem.product_id]
       IN  FinishItem(imageUrl, productImageCache, ItemRecord("cache", "", imageUrl))
    /\ UNCHANGED <<inputVars, response, fetchVars, streamVars, log>>

NeedsLookup ==
    /\ Resolving
    /\ Truthy(CurrentItem.product_id)
    /\ CurrentItem.product_id \notin DOMAIN productImageCache

ProductRequest == [kind |-> "product", product_id |-> CurrentItem.product_id]

\* lines 104-114: the lookup answers with a success response
LookupOk ==
    /\ NeedsLookup
    /\ log' = Append(log, ProductRequest)
    /\ \E product \in ProductBodies :
          IF HasImageSrc(product)
          THEN FinishItem(product.src,
                          CacheSet(productImageCache, CurrentItem.product_id, product.src),
                          ItemRecord("lookup", "ok", product.src))
          ELSE FinishItem("",
                          CacheSet(productImageCache, CurrentItem.product_id, Null),
                          ItemRecord("lookup", "ok", ""))
    /\ UNCHANGED <<inputVars, response, fetchVars, streamVars>>

\* lines 107, 115: a non-success response leaves imageUrl '' and the cache alone
LookupNotOk ==
    /\ NeedsLookup
    /\ log' = Append(log, ProductRequest)
    /\ FinishItem("", productImageCache, ItemRecord("lookup", "notok", ""))
    /\ UNCHANGED <<inputVars, response, fetchVars, streamVars>>

\* mutant of LookupThrows: no try/catch around the lookup, the exception
\* reaches the handler's catch
LookupThrowsAborts ==
    /\ NeedsLookup
    /\ log' = Append(log, ProductRequest)
    /\ resolved' = Append(resolved, ItemRecord("lookup", "throws", ""))
    /\ Respond(InternalError("lookup failed"))
    /\ UNCHANGED <<inputVars, fetchVars, imageUrls, finalImageUrlList,
                   productImageCache, oi, ii, streamVars>>

\* line 116: fetch or response.json() throws, the catch logs it
LookupThrows ==
    /\ NeedsLookup
    /\ log' = Append(log, ProductRequest)
    /\ FinishItem("", productImageCache, ItemRecord("lookup", "throws", ""))
    /\ UNCHANGED <<inputVars, response, fetchVars, streamVars>>

-----------------------------------------------------------------------------
(* handler lines 37-51 and streamZipToBlobStorage, lines 59-90 *)

\* mutants of EntryName: the loop index used as it is; the entries numbered
\* by a count of the entries appended
EntryNameZeroBased(idx) == "image-" \o ToString(idx) \o ".jpg"

EntryNameCompact(idx) == "image-" \o ToString(Len(archive) + 1) \o ".jpg"

\* line 78: the entry name for loop index idx (0-based)
EntryName(idx) == "image-" \o ToString(idx + 1) \o ".jpg"

ImageRequest(idx) == [kind |-> "image", url |-> imageUrls[idx + 1]]

\* mutant of NoImages: the check of line 37 is missing, the streamer is
\* called with an empty list, starts the put and goes on to finalize
NoImagesStreamsEmpty ==
    /\ pc = "haveImageUrls"
    /\ Len(imageUrls) = 0
    /\ upload' = "pending"
    /\ archive' = <<>>
    /\ i' = 0
    /\ log' = Append(log, [kind |-> "put"])
    /\ pc' = "finalize"
    /\ UNCHANGED <<inputVars, response, fetchVars, resolveVars, finalized, downloads>>

\* handler lines 37-39
NoImages ==
    /\ pc = "haveImageUrls"
    /\ Len(imageUrls) = 0
    /\ Respond([statusCode |-> 200,
                message |-> "No product images found in these unfulfilled orders."])
    /\ UNCHANGED <<inputVars, fetchVars, resolveVars, streamVars, log>>

\* handler line 42 and lines 61-76: the store put is started with the archive
\* stream (line 70), then the loop requests the first image (line 76)
CallStreamZipToBlobStorage ==
    /\ pc = "haveImageUrls"
    /\ Len(imageUrls) # 0
    /\ upload' = "pending"
    /\ archive' = <<>>
    /\ i' = 0
    /\ log' = log \o << [kind |-> "put"], ImageRequest(0) >>
    /\ pc' = "streamZipToBlobStorage"
    /\ UNCHANGED <<inputVars, response, fetchVars, resolveVars, finalized, downloads>>

\* The end of one iteration of the loop of lines 74-83: the next image is
\* requested, or after the last one archive.finalize() is called (line 85).
NextDownload ==
    /\ i' = i + 1
    /\ IF i + 1 < Len(imageUrls)
       THEN /\ log' = Append(log, ImageRequest(i + 1))
            /\ UNCHANGED pc
       ELSE /\ pc' = "finalize"
            /\ UNCHANGED log

Downloading == pc = "streamZipToBlobStorage" /\ i < Len(imageUrls)

\* lines 77-79
DownloadOk ==
    /\ Downloading
    /\ archive' = Append(archive, [name |-> EntryName(i), content |-> imageUrls[i + 1]])
    /\ downloads' = Append(downloads, "ok")
    /\ NextDownload
    /\ UNCHANGED <<inputVars, response, fetchVars, resolveVars, finalized, upload>>

\* line 77: response.ok is false, nothing is appended
DownloadNotOk ==
    /\ Downloading
    /\ downloads' = Append(downloads, "notok")
    /\ NextDownload
    /\ UNCHANGED <<inputVars, response, fetchVars, resolveVars, archive, finalized, upload>>

\* mutant of DownloadThrows: no try/catch around the download, the exception
\* reaches the handler's catch
DownloadThrowsAborts ==
    /\ Downloading
    /\ downloads' = Append(downloads, "throws")
    /\ Respond(InternalError("download failed"))
    /\ UNCHANGED <<inputVars, fetchVars, resolveVars, i, archive, finalized, upload, log>>

\* lines 80-82: fetch throws, the catch logs it
DownloadThrows ==
    /\ Downloading
    /\ downloads' = Append(downloads, "throws")
    /\ NextDownload
    /\ UNCHANGED <<inputVars, response, fetchVars, resolveVars, archive, finalized, upload>>

\* line 85: archive.finalize() completes
FinalizeDone ==
    /\ pc = "finalize"
    /\ finalized' = TRUE
    /\ pc' = "awaitUpload"
    /\ UNCHANGED <<inputVars, response, fetchVars, resolveVars, i, archive, upload,
                   downloads, log>>

\* The store: the put started at line 70 completes once the archive stream
\* has been ended by finalize() ...
UploadDone ==
    /\ upload = "pending"
    /\ pc \in {"finalize", "awaitUpload"}
    /\ upload' = "done"
    /\ UNCHANGED <<inputVars, pc, response, fetchVars, resolveVars, i, archive,
                   finalized, downloads, log>>

\* ... or fails at any time while it is pending
UploadFail ==
    /\ upload = "pending"
    /\ pc # "done"
    /\ upload' = "failed"
    /\ UNCHANGED <<inputVars, pc, response, fetchVars, resolveVars, i, archive,
                   finalized, downloads, log>>

\* mutant of AwaitUploadOk: uploadPromise is not awaited
AwaitUploadSkipped ==
    /\ pc = "awaitUpload"
    /\ log' = Append(log, [kind |-> "getUrl"])
    /\ pc' = "getUrl"
    /\ UNCHANGED <<inputVars, response, fetchVars, resolveVars, streamVars>>

\* lines 70-86: uploadPromise has no rejection handler until it is awaited at
\* line 86.  When the put fails while the function is suspended at line 76 or
\* 85, the rejection is unhandled: the runtime either only reports it (the
\* execution goes on as in UploadFail) or raises it as an uncaught exception,
\* which ends the process outside the handler's try/catch, without a response.
UploadFailUnhandled ==
    /\ upload = "pending"
    /\ pc \in {"streamZipToBlobStorage", "finalize"}
    /\ upload' = "failed"
    /\ pc' = "crashed"
    /\ UNCHANGED <<inputVars, response, fetchVars, resolveVars, i, archive,
                   finalized, downloads, log>>

\* lines 86-88: uploadPromise is fulfilled, the access URL is requested
AwaitUploadOk ==
    /\ pc = "awaitUpload"
    /\ upload = "done"
    /\ log' = Append(log, [kind |-> "getUrl"])
    /\ pc' = "getUrl"
    /\ UNCHANGED <<inputVars, response, fetchVars, resolveVars, streamVars>>

\* line 86: uploadPromise is rejected, caught at line 53
AwaitUploadRejected ==
    /\ pc = "awaitUpload"
    /\ upload = "failed"
    /\ Respond(InternalError("upload failed"))
    /\ UNCHANGED <<inputVars, fetchVars, resolveVars, streamVars, log>>

\* mutant of GetUrlOk: the message reports the entries of the archive
GetUrlOkCountsEntries ==
    /\ pc = "getUrl"
    /\ Respond([statusCode |-> 200,
                message |-> "Successfully bundled " \o ToString(Len(archive))
                            \o " images. Your download is ready.",
                downloadUrl |-> "signedUrl"])
    /\ UNCHANGED <<inputVars, fetchVars, resolveVars, streamVars, log>>

\* lines 88-89 and handler lines 44-51
GetUrlOk ==
    /\ pc = "getUrl"
    /\ Respond([statusCode |-> 200,
                message |-> "Successfully bundled " \o ToString(Len(imageUrls))
                            \o " images. Your download is ready.",
                downloadUrl |-> "signedUrl"])
    /\ UNCHANGED <<inputVars, fetchVars, resolveVars, streamVars, log>>

\* line 88 throws, caught at line 53
GetUrlFail ==
    /\ pc = "getUrl"
    /\ Respond(InternalError("get failed"))
    /\ UNCHANGED <<inputVars, fetchVars, resolveVars, streamVars, log>>

-----------------------------------------------------------------------------
(* Inputs *)

Order(n, items) == [order_number |-> n, line_items |-> items]

Body(json, type, dateValid, s, e) ==
    [json |-> json, type |-> type, dateValid |-> dateValid, start |-> s, end |-> e]

RangeBodies(nums) == { Body(TRUE, "order_range", FALSE, s, e) : s \in nums, e \in nums }

DateBody == Body(TRUE, "date", TRUE, 0, 0)

Post(body) == [httpMethod |-> "POST", body |-> body]

LineItems ==
    [product_id : {NoProductId} \cup ProductIds, quantity : {0, 1, MaxQuantity}]

\* The orders a whole invocation is run on: order n has the line items below.
LineItemsOf(n) ==
    CASE n = 1 -> << [product_id |-> "P1", quantity |-> 2] >>
      [] n = 2 -> << [product_id |-> NoProductId, quantity |-> 1],
                     [product_id |-> "P1", quantity |-> 1] >>
      [] n = 3 -> << [product_id |-> "P2", quantity |-> 1] >>
      [] OTHER -> << >>

InvocationListings ==
    { [k \in 1..Len(s) |-> Order(s[k], LineItemsOf(s[k]))] :
        s \in DistinctSeqs(1..MaxInvocationOrders) }

InvocationEvents ==
    { [httpMethod |-> "GET", body |-> DateBody],
      Post(Body(FALSE, "", FALSE, 0, 0)),
      Post(Body(TRUE, "other", FALSE, 0, 0)),
      Post(Body(TRUE, "date", FALSE, 0, 0)),
      Post(DateBody) }
    \cup { Post(b) : b \in RangeBodies(1..MaxInvocationOrders) }

\* The listings range mode is run on: orders with distinct numbers, in any order.
RangeListings ==
    { [k \in 1..Len(s) |-> Order(s[k], <<>>)] : s \in DistinctSeqs(OrderNums) }

\* The order lists the resolver is run on: at most MaxLineItems line items,
\* all in one order or split over two (either of which may have none).
ResolverInputs ==
    UNION { { << Order(1, flat) >> }
            \cup { << Order(1, SubSeq(flat, 1, k)), Order(2, SubSeq(flat, k + 1, Len(flat))) >> :
                     k \in 0..Len(flat) } :
            flat \in SeqsUpTo(LineItems, MaxLineItems) }

\* The URL lists the streamer is run on
StreamerInputs == SeqsUpTo(Urls, MaxUrls) \ {<<>>}

-----------------------------------------------------------------------------
(* Specifications *)

\* The locals of the functions not yet entered
Fresh ==
    /\ response = <<>>
    /\ orders = <<>>
    /\ startNum = 0
    /\ endNum = 0
    /\ allOrders = <<>>
    /\ nextUrl = NoPage
    /\ fetched = <<>>
    /\ imageUrls = <<>>
    /\ finalImageUrlList = <<>>
    /\ productImageCache = <<>>
    /\ oi = 1
    /\ ii = 1
    /\ resolved = <<>>
    /\ i = 0
    /\ archive = <<>>
    /\ finalized = FALSE
    /\ upload = "none"
    /\ downloads = <<>>
    /\ log = <<>>

\* A whole invocation
Init ==
    /\ event \in InvocationEvents
    /\ configOk \in BOOLEAN
    /\ upstream \in InvocationListings
    /\ pc = "handler"
    /\ Fresh

Fetch ==
    \/ MethodNotAllowed
    \/ ConfigError
    \/ BodyParseError
    \/ InvalidType
    \/ CallGetOrdersByDate
    \/ DateFetchOk
    \/ DateFetchFail
    \/ CallGetOrdersByNumberRange
    \/ RangeFetchPage
    \/ RangeFetchFail
    \/ NoOrders

Resolve ==
    \/ CallGetAllImageUrlsByQuantity
    \/ SkipItem
    \/ UseCache
    \/ LookupOk
    \/ LookupNotOk
    \/ LookupThrows
    \/ NoImages

Stream ==
    \/ CallStreamZipToBlobStorage
    \/ DownloadOk
    \/ DownloadNotOk
    \/ DownloadThrows
    \/ FinalizeDone
    \/ UploadDone
    \/ UploadFail
    \/ UploadFailUnhandled
    \/ AwaitUploadOk
    \/ AwaitUploadRejected
    \/ GetUrlOk
    \/ GetUrlFail

Next == Fetch \/ Resolve \/ Stream

Spec == Init /\ [][Next]_vars

\* getOrdersByNumberRange called by the handler on any range and any listing
InitRange ==
    /\ event \in { Post(b) : b \in RangeBodies(OrderNums) }
    /\ configOk = TRUE
    /\ upstream \in RangeListings
    /\ pc = "handler"
    /\ Fresh

NextRange ==
    \/ CallGetOrdersByNumberRange
    \/ RangeFetchPage
    \/ RangeFetchFail

SpecRange == InitRange /\ [][NextRange]_vars

\* getAllImageUrlsByQuantity called by the handler on any list of orders
InitResolve ==
    /\ event = Post(DateBody)
    /\ configOk = TRUE
    /\ \E os \in ResolverInputs :
          /\ upstream = os
          /\ orders = os
          /\ fetched = << [page |-> 1, ok |-> TRUE, hasNext |-> FALSE, n |-> Len(os)] >>
    /\ log = << [kind |-> "orders", page |-> 1] >>
    /\ pc = "haveOrders"
    /\ response = <<>>
    /\ startNum = 0
    /\ endNum = 0
    /\ allOrders = <<>>
    /\ nextUrl = NoPage
    /\ imageUrls = <<>>
    /\ finalImageUrlList = <<>>
    /\ productImageCache = <<>>
    /\ oi = 1
    /\ ii = 1
    /\ resolved = <<>>
    /\ i = 0
    /\ archive = <<>>
    /\ finalized = FALSE
    /\ upload = "none"
    /\ downloads = <<>>

NextResolve ==
    \/ CallGetAllImageUrlsByQuantity
    \/ SkipItem
    \/ UseCache
    \/ LookupOk
    \/ LookupNotOk
    \/ LookupThrows

SpecResolve == InitResolve /\ [][NextResolve]_vars

\* streamZipToBlobStorage called by the handler on any non-empty URL list; the
\* function reads nothing else of the caller.
InitStream ==
    /\ event = Post(DateBody)
    /\ configOk = TRUE
    /\ upstream = <<>>
    /\ pc = "haveImageUrls"
    /\ imageUrls \in StreamerInputs
    /\ response = <<>>
    /\ orders = <<>>
    /\ startNum = 0
    /\ endNum = 0
    /\ allOrders = <<>>
    /\ nextUrl = NoPage
    /\ fetched = <<>>
    /\ finalImageUrlList = imageUrls
    /\ productImageCache = <<>>
    /\ oi = 1
    /\ ii = 1
    /\ resolved = <<>>
    /\ i = 0
    /\ archive = <<>>
    /\ finalized = FALSE
    /\ upload = "none"
    /\ downloads = <<>>
    /\ log = <<>>

NextStream ==
    \/ CallStreamZipToBlobStorage
    \/ DownloadOk
    \/ DownloadNotOk
    \/ DownloadThrows
    \/ FinalizeDone
    \/ UploadDone
    \/ UploadFail
    \/ UploadFailUnhandled
    \/ AwaitUploadOk
    \/ AwaitUploadRejected
    \/ GetUrlOk
    \/ GetUrlFail

SpecStream == InitStream /\ [][NextStream]_vars

-----------------------------------------------------------------------------
(* Properties of the order fetch *)

\* indices of the requests of one kind in the log
Requests(kind) == { k \in 1..Len(log) : log[k].kind = kind }

Elems(seq) == { seq[k] : k \in 1..Len(seq) }

\* the orders of every page a success response has delivered
FetchedOrders ==
    UNION { Elems(PageOf(upstream, fetched[j].page)) : j \in { k \in 1..Len(fetched) : fetched[k].ok } }

RangeReturned == event.body.type = "order_range" /\ pc = "haveOrders"

\* C1: once getOrdersByNumberRange(S, E) with S <= E has returned, every
\* returned order has S <= order_number <= E and was part of a fetched page.
C1_RangeSound ==
    (RangeReturned /\ event.body.start <= event.body.end) =>
        \A k \in 1..Len(orders) :
            /\ event.body.start <= orders[k].order_number
            /\ orders[k].order_number <= event.body.end
            /\ orders[k] \in FetchedOrders

\* a run that fetched two pages, returned at least one order and dropped one
\* above the range and one below it
C1_Witness ==
    /\ RangeReturned
    /\ event.body.start <= event.body.end
    /\ Len(fetched) >= 2
    /\ Len(orders) >= 1
    /\ \E a, b \in 1..Len(allOrders) :
          /\ allOrders[a].order_number > event.body.end
          /\ allOrders[b].order_number < event.body.start

Descending(listing) ==
    \A a, b \in 1..Len(listing) :
        a < b => listing[a].order_number >= listing[b].order_number

\* every response to a page that is not the last one carried a rel="next" link
NonLastPagesLinked ==
    \A j \in 1..Len(fetched) :
        fetched[j].page < NumPages(upstream) => fetched[j].hasNext

\* C2: when all responses are successes, every page before the last carries a
\* next link and the listing is in descending order_number, every upstream
\* order with S <= order_number <= E is in the result, early exit or not.
C2_RangeComplete ==
    (RangeReturned /\ Descending(upstream) /\ NonLastPagesLinked) =>
        \A k \in 1..Len(upstream) :
            (event.body.start <= upstream[k].order_number
                /\ upstream[k].order_number <= event.body.end)
            => upstream[k] \in Elems(orders)

\* a descending listing of which the early exit left the last page
\* unrequested, with an order in range returned
C2_Witness ==
    /\ RangeReturned
    /\ Descending(upstream)
    /\ NonLastPagesLinked
    /\ Len(fetched) < NumPages(upstream)
    /\ Len(orders) >= 1

OrderFetchFailed == \E j \in 1..Len(fetched) : ~fetched[j].ok

\* C3: when an order-page request (date mode, first or later page of range
\* mode) gets a non-success response, that request is the last request of the
\* invocation: no order list is returned, nothing has been requested since,
\* and the invocation has ended with an error response without downloadUrl.
C3_UpstreamFailureAborts ==
    OrderFetchFailed =>
        /\ ~fetched[Len(fetched)].ok
        /\ \A j \in 1..(Len(fetched) - 1) : fetched[j].ok
        /\ Len(log) = Len(fetched)
        /\ \A k \in 1..Len(log) : log[k].kind = "orders"
        /\ orders = <<>>
        /\ imageUrls = <<>>
        /\ upload = "none"
        /\ pc = "done"
        /\ Len(response) = 1
        /\ response[1].statusCode = 500
        /\ "downloadUrl" \notin DOMAIN response[1]

\* the second page of range mode failed after a first page had been accumulated
C3_Witness ==
    /\ OrderFetchFailed
    /\ Len(fetched) = 2
    /\ Len(allOrders) > 0
    /\ \E k \in 1..Len(allOrders) :
          /\ startNum <= allOrders[k].order_number
          /\ allOrders[k].order_number <= endNum

-----------------------------------------------------------------------------
(* Properties of the image resolver *)

\* the lookups requested for product id p, and those among the visited line
\* items that ended in a non-success response or an I/O error
LookupsFor(p) == { k \in Requests("product") : log[k].product_id = p }

FailedLookupsFor(p) ==
    { k \in 1..Len(resolved) :
        /\ resolved[k].product_id = p
        /\ resolved[k].source = "lookup"
        /\ resolved[k].outcome \in {"notok", "throws"} }

OkLookupsFor(p) ==
    { k \in 1..Len(resolved) :
        /\ resolved[k].product_id = p
        /\ resolved[k].source = "lookup"
        /\ resolved[k].outcome = "ok" }

\* C4 as stated: whatever the outcomes of the lookups, the product lookup API
\* is invoked at most once for each product_id.
C4_AtMostOneLookup ==
    \A p \in ProductIds : Cardinality(LookupsFor(p)) <= 1

\* C4 as amended: a product_id gets at most one lookup that answers with
\* success and no lookup after it; only a lookup that ended in a non-success
\* response or an I/O error is followed by another one, so the lookups of a
\* product_id are at most one more than its failed lookups.
C4_AtMostOneLookupUnlessFailed ==
    \A p \in ProductIds :
        /\ Cardinality(OkLookupsFor(p)) <= 1
        /\ Cardinality(LookupsFor(p)) <= Cardinality(FailedLookupsFor(p)) + 1
        /\ \A j \in OkLookupsFor(p) : \A k \in 1..Len(resolved) :
              (k > j /\ resolved[k].product_id = p) => resolved[k].source = "cache"

\* two line items of one product: the first looked it up with success, the
\* second was served from the cache
C4_Witness ==
    /\ Len(resolved) = 2
    /\ resolved[1].product_id = resolved[2].product_id
    /\ resolved[1].source = "lookup"
    /\ resolved[1].outcome = "ok"
    /\ resolved[2].source = "cache"
    /\ Cardinality(Requests("product")) = 1

\* the line items of the orders, in order of the orders and within each order
RECURSIVE FlatItems(_)
FlatItems(os) ==
    IF os = <<>> THEN <<>> ELSE Head(os).line_items \o FlatItems(Tail(os))

\* what the visited line items contribute: quantity copies of the URL obtained
\* for an item with a product_id and a non-empty URL, nothing for any other
RECURSIVE Contribution(_)
Contribution(recs) ==
    IF recs = <<>> THEN <<>>
    ELSE LET r == recs[Len(recs)]
             copies == IF r.product_id # NoProductId /\ r.imageUrl \notin {"", Null}
                       THEN [k \in 1..r.quantity |-> r.imageUrl] ELSE <<>>
         IN  Contribution(SubSeq(recs, 1, Len(recs) - 1)) \o copies

RECURSIVE ResolvedQuantity(_)
ResolvedQuantity(recs) ==
    IF recs = <<>> THEN 0
    ELSE (IF Head(recs).product_id # NoProductId /\ Head(recs).imageUrl \notin {"", Null}
          THEN Head(recs).quantity ELSE 0) + ResolvedQuantity(Tail(recs))

ResolverReturned == Len(orders) > 0 /\ oi > Len(orders)

\* C5: the line items are visited in order of the orders and of the items
\* within each order, the list built so far is the concatenation of their
\* contributions, and the list returned is that of all line items, so its
\* length is the sum of quantity over the line items with a resolved image.
C5_QuantityExpansion ==
    /\ Len(resolved) <= Len(FlatItems(orders))
    /\ \A k \in 1..Len(resolved) :
          /\ resolved[k].product_id = FlatItems(orders)[k].product_id
          /\ resolved[k].quantity = FlatItems(orders)[k].quantity
    /\ pc = "getAllImageUrlsByQuantity" => finalImageUrlList = Contribution(resolved)
    /\ ResolverReturned =>
          /\ Len(resolved) = Len(FlatItems(orders))
          /\ imageUrls = Contribution(resolved)
          /\ Len(imageUrls) = ResolvedQuantity(resolved)

\* two orders of one line item each, resolved to different URLs, the first
\* with quantity 2: the list returned is two copies of the first URL, then
\* the second
C5_Witness ==
    /\ ResolverReturned
    /\ Len(orders) = 2
    /\ Len(resolved) = 2
    /\ resolved[1].quantity = 2
    /\ resolved[2].quantity = 1
    /\ Len(imageUrls) = 3
    /\ imageUrls[1] = imageUrls[2]
    /\ imageUrls[2] # imageUrls[3]

-----------------------------------------------------------------------------
(* Properties of the archive streamer *)

\* the producer loop of lines 74-83 has ended
LoopEnded == pc \in {"finalize", "awaitUpload", "getUrl", "done"}

\* the 1-based positions of the URLs whose download succeeded, in order
RECURSIVE OkPositions(_)
OkPositions(ds) ==
    IF ds = <<>> THEN <<>>
    ELSE LET before == OkPositions(SubSeq(ds, 1, Len(ds) - 1))
         IN  IF ds[Len(ds)] = "ok" THEN Append(before, Len(ds)) ELSE before

NameOfPosition(k) == "image-" \o ToString(k) \o ".jpg"

EntryNames == { archive[j].name : j \in 1..Len(archive) }

\* C6: the archive holds one entry per successful download at any time; when
\* the loop has ended every URL has been requested and has an outcome, so a
\* failed download has neither added an entry nor kept a later URL from
\* being attempted.
C6_ArchiveComplete ==
    /\ Len(archive) = Cardinality({ k \in 1..Len(downloads) : downloads[k] = "ok" })
    /\ LoopEnded =>
          /\ Len(downloads) = Len(imageUrls)
          /\ Cardinality(Requests("image")) = Len(imageUrls)
          /\ \A k \in 1..Len(imageUrls) :
                \E r \in Requests("image") : log[r].url = imageUrls[k]

\* the loop has ended after a non-success response and an I/O error that were
\* each followed by a successful download
C6_Witness ==
    /\ LoopEnded
    /\ \E a, b, c, d \in 1..Len(downloads) :
          /\ a < b /\ b < c /\ c < d
          /\ downloads[a] = "notok"
          /\ downloads[b] = "ok"
          /\ downloads[c] = "throws"
          /\ downloads[d] = "ok"

\* C7: the j-th entry of the archive is the one of the j-th URL whose download
\* succeeded: it is named image-k.jpg for that URL's 1-based position k in
\* urls and holds its content; the positions increase strictly along the
\* archive, so no two entries share a name.
C7_EntryNaming ==
    /\ Len(archive) = Len(OkPositions(downloads))
    /\ \A j \in 1..Len(archive) :
          /\ archive[j].name = NameOfPosition(OkPositions(downloads)[j])
          /\ archive[j].content = imageUrls[OkPositions(downloads)[j]]
    /\ \A a, b \in 1..Len(archive) : a # b => archive[a].name # archive[b].name

\* the archive holds image-1.jpg and image-3.jpg: the second download failed
C7_Witness ==
    /\ LoopEnded
    /\ Len(archive) = 2
    /\ archive[1].name = "image-1.jpg"
    /\ archive[2].name = "image-3.jpg"

\* C8 as stated: the names of the finished archive are image-1.jpg through
\* image-n.jpg without gaps, n being the number of entries appended.
C8_NamesGapFree ==
    LoopEnded => EntryNames = { NameOfPosition(k) : k \in 1..Len(archive) }

\* the successful downloads are the first ones: none follows a failed one
OkFirst ==
    \A a, b \in 1..Len(downloads) : (a < b /\ downloads[b] = "ok") => downloads[a] = "ok"

\* C8 as amended: the names of the finished archive are image-k.jpg for
\* exactly the positions k of urls whose download succeeded; they are
\* image-1.jpg through image-n.jpg exactly when no failed download precedes a
\* successful one.
C8_NamesOfSuccessfulPositions ==
    LoopEnded =>
        /\ EntryNames = { NameOfPosition(k) : k \in { d \in 1..Len(downloads) : downloads[d] = "ok" } }
        /\ (EntryNames = { NameOfPosition(k) : k \in 1..Len(archive) }) <=> OkFirst

\* a finished archive whose only entry is image-2.jpg
C8_Witness ==
    /\ LoopEnded
    /\ Len(downloads) >= 2
    /\ downloads[1] # "ok"
    /\ EntryNames = {"image-2.jpg"}

PutIssuedBefore(k) == \E j \in Requests("put") : j < k

\* C9: the store put is started before any image is requested; the access URL
\* is requested only when finalize has completed and the upload has
\* completed; when the upload has failed no access URL has been requested
\* and no response carries one.
C9_JoinBeforeAccessUrl ==
    /\ \A k \in Requests("image") : PutIssuedBefore(k)
    /\ Requests("getUrl") # {} => (finalized /\ upload = "done")
    /\ upload = "failed" =>
          /\ Requests("getUrl") = {}
          /\ \A r \in 1..Len(response) : "downloadUrl" \notin DOMAIN response[r]
    /\ \A r \in 1..Len(response) :
          "downloadUrl" \in DOMAIN response[r] => Requests("getUrl") # {}

\* the access URL has been requested and returned after the join
C9_Witness ==
    /\ pc = "done"
    /\ Len(response) = 1
    /\ "downloadUrl" \in DOMAIN response[1]
    /\ finalized
    /\ upload = "done"

-----------------------------------------------------------------------------
(* Properties of the handler *)

\* the order fetch has returned (its result is in orders)
FetchReturned ==
    /\ pc \notin {"handler", "getOrdersByDate", "getOrdersByNumberRange"}
    /\ Len(fetched) >= 1
    /\ fetched[Len(fetched)].ok

\* the invocation has ended with status 200 and a body that holds a message
\* and no downloadUrl
MessageOnly ==
    /\ Len(response) = 1
    /\ response[1].statusCode = 200
    /\ DOMAIN response[1] = {"statusCode", "message"}

ZeroOrders == FetchReturned /\ Len(orders) = 0

ZeroImages == FetchReturned /\ ResolverReturned /\ imageUrls = <<>>

\* C10: after the order fetch has returned zero orders, or the resolver an
\* empty URL list, the invocation only answers: it requests no image, no put
\* and no access URL (and no product when there are no orders), and its
\* response is a success with a message and no downloadUrl.
C10_EmptyResult ==
    /\ ZeroOrders =>
          /\ pc \in {"haveOrders", "done"}
          /\ Requests("product") = {}
          /\ Requests("image") = {} /\ Requests("put") = {} /\ Requests("getUrl") = {}
          /\ upload = "none"
          /\ pc = "done" => MessageOnly
    /\ ZeroImages =>
          /\ pc \in {"haveImageUrls", "done"}
          /\ Requests("image") = {} /\ Requests("put") = {} /\ Requests("getUrl") = {}
          /\ upload = "none"
          /\ pc = "done" => MessageOnly

\* the invocation has ended after the resolver looked products up and found
\* no image
C10_Witness ==
    /\ ZeroImages
    /\ pc = "done"
    /\ MessageOnly
    /\ Requests("product") # {}

\* the invocation has ended after range mode fetched two pages and no order
\* was in the range
C10_WitnessNoOrders ==
    /\ ZeroOrders
    /\ pc = "done"
    /\ MessageOnly
    /\ Len(fetched) = 2

-----------------------------------------------------------------------------
(* Properties of date mode and of the pagination of range mode *)

DateMode ==
    /\ event.httpMethod = "POST"
    /\ configOk
    /\ event.body.json
    /\ event.body.type = "date"

\* C11: in date mode at most one order request is ever issued, for the first
\* page; once getOrdersByDate has returned, exactly that one has been issued,
\* whatever link header came with the response, the result is the orders of
\* that page, the orders beyond it are absent, and the invocation answers
\* with an error only if the store fails later.
C11_DateSinglePage ==
    DateMode =>
        /\ Cardinality(Requests("orders")) <= 1
        /\ \A r \in Requests("orders") : log[r].page = 1
        /\ FetchReturned =>
              /\ Cardinality(Requests("orders")) = 1
              /\ Len(fetched) = 1
              /\ orders = PageOf(upstream, 1)
              /\ \A k \in 1..Len(upstream) :
                    k > PageLimit => upstream[k] \notin Elems(orders)
              /\ (pc = "done" /\ Requests("put") = {}) => response[1].statusCode = 200

\* a date-mode invocation has ended with a download URL although the response
\* carried a next link and the listing has an order on a second page
C11_Witness ==
    /\ DateMode
    /\ FetchReturned
    /\ fetched[1].hasNext
    /\ Len(upstream) > PageLimit
    /\ pc = "done"
    /\ "downloadUrl" \in DOMAIN response[1]

RangeMode ==
    /\ event.httpMethod = "POST"
    /\ configOk
    /\ event.body.json
    /\ event.body.type = "order_range"

\* the page of the j-th response, and whether the loop goes on after it
FetchedPage(j) == PageOf(upstream, fetched[j].page)

GoesOnAfter(j) ==
    /\ fetched[j].n > 0
    /\ FetchedPage(j)[fetched[j].n].order_number >= event.body.start
    /\ fetched[j].hasNext

\* C12: in range mode the j-th success response is followed by another page
\* request exactly when its page is not empty, the last order of the page has
\* order_number >= start and the response carries a next link, and the
\* request then is for the linked page; a page whose last order is below
\* start is therefore the last one requested, and its orders are in the
\* accumulator the result is filtered from.
C12_PaginationStopRule ==
    RangeMode =>
        /\ \A j \in 1..Len(fetched) :
              fetched[j].ok =>
                  /\ (Cardinality(Requests("orders")) > j) <=> GoesOnAfter(j)
                  /\ GoesOnAfter(j) => log[j + 1].page = fetched[j].page + 1
                  /\ Elems(FetchedPage(j)) \subseteq Elems(allOrders)
        /\ FetchReturned =>
              \A k \in 1..Len(allOrders) :
                  (event.body.start <= allOrders[k].order_number
                      /\ allOrders[k].order_number <= event.body.end)
                  => allOrders[k] \in Elems(orders)

\* the loop stopped at a page that carried a next link because its last order
\* is below start, and an order of that page is in the result
C12_Witness ==
    /\ RangeReturned
    /\ Len(fetched) >= 1
    /\ fetched[Len(fetched)].hasNext
    /\ fetched[Len(fetched)].n > 0
    /\ FetchedPage(Len(fetched))[fetched[Len(fetched)].n].order_number < event.body.start
    /\ \E o \in Elems(orders) : o \in Elems(FetchedPage(Len(fetched)))

\* the loop stopped at an empty page that carried a next link
C12_WitnessEmptyPage ==
    /\ RangeReturned
    /\ Len(fetched) >= 2
    /\ fetched[Len(fetched)].n = 0
    /\ fetched[Len(fetched)].hasNext

-----------------------------------------------------------------------------
(* Properties of the cache and of failed lookups *)

\* what a line item gets from a lookup result or a cache entry: the URL, or
\* nothing
Gets(imageUrl) == IF imageUrl \in {"", Null} THEN "" ELSE imageUrl

CacheKept ==
    \A p \in DOMAIN productImageCache :
        /\ p \in DOMAIN productImageCache'
        /\ productImageCache'[p] = productImageCache[p]

\* C13: a cache entry, once written, is never changed or removed; after a
\* lookup of a product_id has answered with success, the entry holds its
\* result (the URL, or null for a product without image), every later line
\* item of that product_id is served from the cache without a lookup and gets
\* the same URL, or nothing for a negative entry.
C13_CacheEntriesFinal ==
    /\ [][CacheKept]_vars
    /\ [](\A j \in 1..Len(resolved) :
            (resolved[j].source = "lookup" /\ resolved[j].outcome = "ok") =>
                /\ resolved[j].product_id \in DOMAIN productImageCache
                /\ Gets(productImageCache[resolved[j].product_id]) = Gets(resolved[j].imageUrl)
                /\ \A k \in (j + 1)..Len(resolved) :
                      resolved[k].product_id = resolved[j].product_id =>
                          /\ resolved[k].source = "cache"
                          /\ Gets(resolved[k].imageUrl) = Gets(resolved[j].imageUrl))

\* a lookup answered with success and without image, and the next line item
\* of the product was served nothing from the negative entry
C13_Witness ==
    /\ Len(resolved) = 2
    /\ resolved[1].source = "lookup"
    /\ resolved[1].outcome = "ok"
    /\ resolved[1].imageUrl = ""
    /\ resolved[2].source = "cache"
    /\ resolved[2].quantity > 0
    /\ productImageCache[resolved[1].product_id] = Null
    /\ finalImageUrlList = <<>>

\* a cached URL served to the next line item of the product
C13_WitnessUrl ==
    /\ Len(resolved) = 2
    /\ resolved[1].source = "lookup"
    /\ resolved[1].imageUrl \in Urls
    /\ resolved[2].source = "cache"
    /\ resolved[2].imageUrl = resolved[1].imageUrl

FailedLookup(rec) == rec.source = "lookup" /\ rec.outcome \in {"notok", "throws"}

\* the step visits a line item whose lookup fails
FailedLookupStep ==
    /\ Len(resolved') = Len(resolved) + 1
    /\ FailedLookup(resolved'[Len(resolved')])

\* C14: a step in which a product lookup ends in a non-success response or an
\* I/O error leaves the URL list and the cache as they were and ends no
\* invocation: the resolver goes on or returns the list; the line item
\* contributes nothing, and a line item of the same product_id that follows a
\* failed lookup directly looks the product up again.
C14_FailedLookupAbsorbed ==
    /\ [][FailedLookupStep =>
            /\ finalImageUrlList' = finalImageUrlList
            /\ productImageCache' = productImageCache
            /\ response' = response
            /\ pc' \in {"getAllImageUrlsByQuantity", "haveImageUrls"}
            /\ pc' = "haveImageUrls" <=> Len(resolved') = Len(FlatItems(orders))]_vars
    /\ [](\A k \in 1..Len(resolved) :
            FailedLookup(resolved[k]) =>
                /\ Gets(resolved[k].imageUrl) = ""
                /\ \A n \in (k + 1)..Len(resolved) :
                      (resolved[n].product_id = resolved[k].product_id
                          /\ \A m \in (k + 1)..(n - 1) :
                                resolved[m].product_id # resolved[k].product_id)
                      => resolved[n].source = "lookup")

\* a lookup failed by an I/O error after a URL had been pushed; the list was
\* returned with that URL
C14_Witness ==
    /\ ResolverReturned
    /\ Len(resolved) = 2
    /\ Gets(resolved[1].imageUrl) # ""
    /\ resolved[2].source = "lookup"
    /\ resolved[2].outcome = "throws"
    /\ Len(imageUrls) > 0

\* a failed lookup followed by a fresh lookup of the same product that found
\* its image
C14_WitnessRetry ==
    /\ Len(resolved) = 2
    /\ FailedLookup(resolved[1])
    /\ resolved[2].product_id = resolved[1].product_id
    /\ resolved[2].source = "lookup"
    /\ resolved[2].outcome = "ok"
    /\ Cardinality(LookupsFor(resolved[1].product_id)) = 2

-----------------------------------------------------------------------------
(* Propagation of failures *)

\* the invocation is over: the handler has returned, or the process has ended
Over == pc \in {"done", "crashed"}

\* the responses of the handler's catch (lines 53-56)
InternalErrors ==
    { InternalError(msg) :
        msg \in {"Unexpected token", "Invalid time value", "Shopify API error",
                 "Shopify API error. Details", "upload failed", "get failed"} }

\* how an invocation that is over has ended, given what failed in it; over
\* says which states count as the end
EndsAsPropagated(over) ==
    /\ Len(response) <= 1
    /\ over <=> Len(response) = 1
    /\ (over /\ OrderFetchFailed) => response[1] \in InternalErrors
    /\ (over /\ upload = "failed") => response[1] \in InternalErrors
    /\ (over /\ Requests("getUrl") # {}) =>
          \/ response[1] = InternalError("get failed")
          \/ (response[1].statusCode = 200 /\ "downloadUrl" \in DOMAIN response[1])
    /\ (over /\ FetchReturned /\ upload # "failed"
             /\ response[1] # InternalError("get failed")) =>
          response[1].statusCode = 200

\* C15: an invocation that is over has ended with exactly one response; it is
\* the internal-error response when an order-page request, the store put or
\* the access-URL request failed, and a success response when nothing but
\* product lookups and image downloads failed.
C15_FailurePropagation == EndsAsPropagated(Over)

\* the part of C15 that holds: the same of the invocations in which the
\* handler returns
C15_WhenHandlerReturns == EndsAsPropagated(pc = "done")

\* the invocations C15 fails on: the put failed before line 86 and the process
\* ended without a response
C15_Crash ==
    /\ pc = "crashed"
    /\ upload = "failed"
    /\ response = <<>>

\* an invocation in which a lookup and a download failed, and nothing else,
\* has ended with a download URL
C15_ItemFailuresOnly ==
    /\ pc = "done"
    /\ \E k \in 1..Len(resolved) : FailedLookup(resolved[k])
    /\ \E k \in 1..Len(downloads) : downloads[k] # "ok"
    /\ response[1].statusCode = 200
    /\ "downloadUrl" \in DOMAIN response[1]

-----------------------------------------------------------------------------
(* Early exit on a listing that is not descending; the reported count *)

\* the orders of the listing on pages that were never requested
UnfetchedOrders ==
    { upstream[k] : k \in { n \in 1..Len(upstream) :
          \A j \in 1..Len(fetched) : (n - 1) \div PageLimit + 1 # fetched[j].page } }

\* the j-th response is a success whose page took the early exit
EarlyExitAt(j) ==
    /\ fetched[j].ok
    /\ fetched[j].n > 0
    /\ FetchedPage(j)[fetched[j].n].order_number < event.body.start

\* C16: in range mode a page whose last order is below start ends the
\* traversal whatever the order of the listing: it is the last response, no
\* failure is recorded, the fetch returns, and no order of a page after it is
\* in the result, be it in the range or not; nothing in the response tells.
C16_EarlyExitOmits ==
    RangeMode =>
        \A j \in 1..Len(fetched) :
            EarlyExitAt(j) =>
                /\ j = Len(fetched)
                /\ Cardinality(Requests("orders")) = j
                /\ ~OrderFetchFailed
                /\ FetchReturned
                /\ \A o \in UnfetchedOrders : o \notin Elems(orders)
                /\ (Over /\ upload # "failed" /\ Requests("getUrl") = {}) =>
                      (Len(response) = 1 /\ response[1].statusCode = 200)

\* a listing that is not descending: the early exit left a page with an order
\* of the range unrequested, and the invocation has ended with a download URL
C16_Witness ==
    /\ RangeMode
    /\ pc = "done"
    /\ Len(fetched) > 0
    /\ ~Descending(upstream)
    /\ EarlyExitAt(Len(fetched))
    /\ fetched[Len(fetched)].hasNext
    /\ \A j \in 1..Len(fetched) : fetched[j].ok
    /\ \A k \in 1..Len(resolved) : ~FailedLookup(resolved[k])
    /\ \A k \in 1..Len(downloads) : downloads[k] = "ok"
    /\ \E o \in UnfetchedOrders :
          /\ event.body.start <= o.order_number
          /\ o.order_number <= event.body.end
          /\ o \notin Elems(orders)
    /\ response[1].statusCode = 200
    /\ "downloadUrl" \in DOMAIN response[1]

BundledMessage(n) ==
    "Successfully bundled " \o ToString(n) \o " images. Your download is ready."

Delivered == pc = "done" /\ Len(response) = 1 /\ "downloadUrl" \in DOMAIN response[1]

\* C17: a response with a downloadUrl reports the length of the resolved URL
\* list, whatever the downloads did; the archive then holds an entry per
\* successful download, so the reported number is at least the number of
\* entries and equals it exactly when every download succeeded.
C17_ReportedCount ==
    Delivered =>
        /\ response[1].statusCode = 200
        /\ response[1].message = BundledMessage(Len(imageUrls))
        /\ imageUrls = finalImageUrlList
        /\ Len(downloads) = Len(imageUrls)
        /\ Len(archive) <= Len(imageUrls)
        /\ Len(archive) = Len(imageUrls) <=> \A k \in 1..Len(downloads) : downloads[k] = "ok"
        /\ upload = "done"

\* every download failed: an empty archive was uploaded and its URL returned
\* with a message reporting two images
C17_Witness ==
    /\ Delivered
    /\ Len(imageUrls) = 2
    /\ archive = <<>>
    /\ \A k \in 1..Len(downloads) : downloads[k] # "ok"
    /\ response[1].message = "Successfully bundled 2 images. Your download is ready."

-----------------------------------------------------------------------------
(* Termination and the number of page requests *)

\* the pages of the cursor chain: the pages holding the listing, and the empty
\* page a next link of the last of them leads to
ChainLength == NumPages(upstream) + 1

\* each page is requested at most once, in the order of the chain
PagesRequestedOnce ==
    /\ \A k1, k2 \in Requests("orders") : k1 < k2 => log[k1].page < log[k2].page
    /\ Cardinality(Requests("orders")) <= ChainLength

Returned == pc = "done" /\ Len(response) = 1

\* C18: every call responding, an invocation goes on until it has returned a
\* response (a state without a response has a next step), and it requests
\* each page of the chain at most once.
C18_Termination ==
    /\ Returned \/ ENABLED Next
    /\ PagesRequestedOnce

\* what holds of C18 in the code: an invocation goes on until it has returned
\* a response or the process has ended on the unhandled rejection of the put
C18_TerminationUnlessCrash ==
    /\ Returned \/ pc = "crashed" \/ ENABLED Next
    /\ PagesRequestedOnce

\* a step adds a request, a response of a call or the response of the
\* invocation, or moves on in the code: no behaviour goes on for ever
Progress ==
    Len(log) + Len(fetched) + Len(resolved) + Len(downloads) + Len(response)

C18_StepsBounded ==
    Progress <= 2 * ChainLength + 2 * MaxLineItems * MaxInvocationOrders + 2 * MaxUrls + 4

\* range mode over a chain of three pages, every page requested, one request each
C18_AllPagesRequested ==
    /\ RangeMode
    /\ Returned
    /\ ChainLength = 3
    /\ Cardinality(Requests("orders")) = 3

=============================================================================
